---- MODULE Spec2Model ----
(***************************************************************************)
(* NASA Terra Hazard Map (my-app/src/App.jsx): the click handler of the    *)
(* map, its multilingual "test emergency" announcement, the weather panel  *)
(* and the ripple markers.                                                 *)
(*                                                                         *)
(* Strings the code inspects character by character (language codes,       *)
(* voice tags, country codes) are sequences of one-character strings, so   *)
(* that startsWith, toLowerCase and toUpperCase are computed and not       *)
(* assumed.  Strings the code only passes along (phrase texts, voice       *)
(* names) are TLA+ strings.  A phrase whose text is not ASCII is written   *)
(* as a reference to the line of App.jsx that holds it.                    *)
(***************************************************************************)
EXTENDS Integers, Sequences, FiniteSets, TLC

VARIABLES
    speechSynthesis,  \* window.speechSynthesis is defined (a speech device exists)
    deviceVoices,     \* what synth.getVoices() returns now
    queue,            \* utterances handed to synth.speak, in call order
    alerts,           \* number of alert() notifications shown
    testMode,         \* App state testMode
    ripples,          \* App state ripples
    weatherBox,       \* App state weatherBox
    nClicks,          \* map clicks handled so far
    ann,              \* per click: the speakTestEmergencyAt invocation
    wx,               \* per click: the handleWeatherClick invocation
    timers,           \* per click: the pending 750ms ripple timer
    requests,         \* network requests issued so far
    service,          \* bodies the reverse-geocoding service may answer with
    clickBudget,      \* clicks the user makes in this run
    pvLang,           \* pickVoiceFor harness: argument langCode
    pvVoices,         \* pickVoiceFor harness: argument voices
    pvResult,         \* pickVoiceFor harness: returned value
    pvPc              \* pickVoiceFor harness: "ready" | "returned"

appVars == <<speechSynthesis, deviceVoices, queue, alerts, testMode, ripples,
             weatherBox, nClicks, ann, wx, timers, requests, service, clickBudget>>
pvVars == <<pvLang, pvVoices, pvResult, pvPc>>
vars == <<appVars, pvVars>>

----------------------------------------------------------------------------
(* Bounds *)

MaxClicks == 2       \* clicks in a run of Spec
MaxVoices == 3       \* longest voice list handed to pickVoiceFor in SpecPick

----------------------------------------------------------------------------
(* JavaScript values and string primitives *)

\* null / undefined: a record no voice, box or response is equal to
Null == [null |-> TRUE]

UPPER == <<"A","B","C","D","E","F","G","H","I","J","K","L","M",
           "N","O","P","Q","R","S","T","U","V","W","X","Y","Z">>
LOWER == <<"a","b","c","d","e","f","g","h","i","j","k","l","m",
           "n","o","p","q","r","s","t","u","v","w","x","y","z">>

IndexIn(alphabet, c) ==
    IF \E i \in 1..Len(alphabet) : alphabet[i] = c
    THEN CHOOSE i \in 1..Len(alphabet) : alphabet[i] = c
    ELSE 0

\* String.prototype.toLowerCase
toLowerCase(s) ==
    [i \in 1..Len(s) |-> IF IndexIn(UPPER, s[i]) > 0 THEN LOWER[IndexIn(UPPER, s[i])] ELSE s[i]]

\* String.prototype.toUpperCase
toUpperCase(s) ==
    [i \in 1..Len(s) |-> IF IndexIn(LOWER, s[i]) > 0 THEN UPPER[IndexIn(LOWER, s[i])] ELSE s[i]]

\* String.prototype.startsWith
startsWith(s, prefix) ==
    /\ Len(prefix) <= Len(s)
    /\ \A i \in 1..Len(prefix) : s[i] = prefix[i]

\* Array.prototype.slice(from, to) with 0 <= from <= to
slice(arr, from, to) ==
    SubSeq(arr, from + 1, IF to < Len(arr) THEN to ELSE Len(arr))

\* JavaScript truthiness of a string: the empty string is falsy
Truthy(s) == Len(s) > 0

----------------------------------------------------------------------------
(* Static tables *)

EMERGENCY_PHRASE ==
    (<<"e","n">> :> "THIS IS A TEST EMERGENCY")
    @@ (<<"e","s">> :> "ESTA ES UNA EMERGENCIA DE PRUEBA")
    @@ (<<"z","h">> :> "(zh text of App.jsx line 37)")
    @@ (<<"h","i">> :> "(hi text of App.jsx line 38)")
    @@ (<<"a","r">> :> "(ar text of App.jsx line 39)")
    @@ (<<"f","r">> :> "Ceci est une alerte d'urgence de test")
    @@ (<<"v","i">> :> "DAY LA TINH HUONG KHAN CAP THU NGHIEM")
    @@ (<<"p","t">> :> "ISTO E UMA EMERGENCIA DE TESTE")
    @@ (<<"r","u">> :> "(ru text of App.jsx line 43)")
    @@ (<<"j","a">> :> "(ja text of App.jsx line 44)")
    @@ (<<"k","o">> :> "(ko text of App.jsx line 45)")
    @@ (<<"d","e">> :> "DIES IST EINE TEST-NOTFALLMELDUNG")
    @@ (<<"t","l">> :> "ITO AY ISANG PAGSUSUBOK NA EMERHENSIYA")
    @@ (<<"u","r">> :> "(ur text of App.jsx line 48)")
    @@ (<<"f","a">> :> "(fa text of App.jsx line 49)")
    @@ (<<"t","r">> :> "BU BIR DENEME ACIL DURUMU")
    @@ (<<"i","t">> :> "QUESTO E UN'EMERGENZA DI PROVA")
    @@ (<<"p","l">> :> "TO JEST TESTOWY ALARM")
    @@ (<<"n","l">> :> "Dit is een test-noodmelding")
    @@ (<<"p","a">> :> "(pa text of App.jsx line 54)")
    @@ (<<"b","n">> :> "(bn text of App.jsx line 55)")
    @@ (<<"t","a">> :> "(ta text of App.jsx line 56)")
    @@ (<<"t","e">> :> "(te text of App.jsx line 57)")
    @@ (<<"m","r">> :> "(mr text of App.jsx line 58)")

COUNTRY_LANGS ==
    (<<"U","S">> :> <<<<"e","n">>, <<"e","s">>, <<"z","h">>, <<"v","i">>, <<"a","r">>>>)
    @@ (<<"C","A">> :> <<<<"e","n">>, <<"f","r">>, <<"z","h">>, <<"p","a">>, <<"e","s">>>>)
    @@ (<<"M","X">> :> <<<<"e","s">>, <<"e","n">>, <<"z","h">>, <<"f","r">>, <<"d","e">>>>)
    @@ (<<"B","R">> :> <<<<"p","t">>, <<"e","n">>, <<"e","s">>, <<"f","r">>, <<"d","e">>>>)
    @@ (<<"G","B">> :> <<<<"e","n">>, <<"p","l">>, <<"p","a">>, <<"u","r">>, <<"a","r">>>>)
    @@ (<<"A","U">> :> <<<<"e","n">>, <<"z","h">>, <<"i","t">>, <<"v","i">>, <<"e","l">>>>)
    @@ (<<"I","N">> :> <<<<"h","i">>, <<"e","n">>, <<"b","n">>, <<"t","e">>, <<"t","a">>>>)
    @@ (<<"C","N">> :> <<<<"z","h">>, <<"y","u","e">>, <<"e","n">>, <<"k","o">>, <<"r","u">>>>)
    @@ (<<"J","P">> :> <<<<"j","a">>, <<"e","n">>, <<"z","h">>, <<"k","o">>, <<"p","t">>>>)
    @@ (<<"K","R">> :> <<<<"k","o">>, <<"e","n">>, <<"z","h">>, <<"j","a">>, <<"v","i">>>>)
    @@ (<<"F","R">> :> <<<<"f","r">>, <<"e","n">>, <<"e","s">>, <<"a","r">>, <<"p","t">>>>)
    @@ (<<"D","E">> :> <<<<"d","e">>, <<"e","n">>, <<"t","r">>, <<"r","u">>, <<"p","l">>>>)
    @@ (<<"E","S">> :> <<<<"e","s">>, <<"e","n">>, <<"c","a">>, <<"g","l">>, <<"f","r">>>>)
    @@ (<<"I","T">> :> <<<<"i","t">>, <<"e","n">>, <<"f","r">>, <<"e","s">>, <<"r","o">>>>)
    @@ (<<"P","T">> :> <<<<"p","t">>, <<"e","n">>, <<"e","s">>, <<"f","r">>, <<"u","k">>>>)
    @@ (<<"R","U">> :> <<<<"r","u">>, <<"e","n">>, <<"u","k">>, <<"t","t">>, <<"a","z">>>>)
    @@ (<<"V","N">> :> <<<<"v","i">>, <<"e","n">>, <<"z","h">>, <<"f","r">>, <<"k","o">>>>)
    @@ (<<"P","H">> :> <<<<"t","l">>, <<"e","n">>, <<"z","h">>, <<"e","s">>, <<"k","o">>>>)
    @@ (<<"T","R">> :> <<<<"t","r">>, <<"e","n">>, <<"k","u">>, <<"a","r">>, <<"f","a">>>>)
    @@ (<<"I","R">> :> <<<<"f","a">>, <<"a","z">>, <<"k","u">>, <<"p","s">>, <<"e","n">>>>)
    @@ (<<"P","K">> :> <<<<"u","r">>, <<"p","a">>, <<"s","d">>, <<"p","s">>, <<"e","n">>>>)
    @@ (<<"S","A">> :> <<<<"a","r">>, <<"e","n">>, <<"u","r">>, <<"f","a">>, <<"h","i">>>>)
    @@ (<<"N","G">> :> <<<<"e","n">>, <<"y","o">>, <<"i","g">>, <<"h","a">>, <<"f","r">>>>)

\* the literal of line 129
DEFAULT_LANGS == <<<<"e","n">>, <<"e","s">>, <<"f","r">>, <<"a","r">>, <<"z","h">>>>

----------------------------------------------------------------------------
(* pickVoiceFor *)

\* voices.find(v => v.lang?.startsWith(prefix)) || null
findStartsWith(voices, prefix) ==
    IF \E i \in 1..Len(voices) : startsWith(voices[i].lang, prefix)
    THEN voices[CHOOSE i \in 1..Len(voices) :
                  /\ startsWith(voices[i].lang, prefix)
                  /\ \A j \in 1..(i - 1) : ~startsWith(voices[j].lang, prefix)]
    ELSE Null

\* candidates comparing the tag and the code as they are spelled
candidates_caseSensitive(langCode, voices) ==
    SelectSeq(voices, LAMBDA v : Truthy(v.lang) /\ startsWith(v.lang, langCode))

\* voices.filter(v => v.lang && v.lang.toLowerCase().startsWith(langCode.toLowerCase()))
candidates(langCode, voices) ==
    SelectSeq(voices, LAMBDA v : /\ Truthy(v.lang)
                                 /\ startsWith(toLowerCase(v.lang), toLowerCase(langCode)))

\* pickVoiceFor without the Cantonese rule of line 94
pickVoiceFor_noYueRule(langCode, voices) ==
    LET cand == candidates(langCode, voices) IN
    IF Len(cand) > 0 THEN cand[1]
    ELSE IF langCode = <<"t","l">> THEN findStartsWith(voices, <<"f","i","l">>)
    ELSE findStartsWith(voices, <<"e","n">>)

\* pickVoiceFor without the Tagalog rule of line 95
pickVoiceFor_noTlRule(langCode, voices) ==
    LET cand == candidates(langCode, voices) IN
    IF Len(cand) > 0 THEN cand[1]
    ELSE IF langCode = <<"y","u","e">> THEN findStartsWith(voices, <<"z","h">>)
    ELSE findStartsWith(voices, <<"e","n">>)

\* pickVoiceFor whose last rule gives up instead of looking for English
pickVoiceFor_noEnRule(langCode, voices) ==
    LET cand == candidates(langCode, voices) IN
    IF Len(cand) > 0 THEN cand[1]
    ELSE IF langCode = <<"y","u","e">> THEN findStartsWith(voices, <<"z","h">>)
    ELSE IF langCode = <<"t","l">> THEN findStartsWith(voices, <<"f","i","l">>)
    ELSE Null

\* pickVoiceFor whose special cases go on to English when they find nothing
pickVoiceFor_enForAll(langCode, voices) ==
    LET cand == candidates(langCode, voices)
        special == IF langCode = <<"y","u","e">> THEN findStartsWith(voices, <<"z","h">>)
                   ELSE IF langCode = <<"t","l">> THEN findStartsWith(voices, <<"f","i","l">>)
                   ELSE Null
    IN IF Len(cand) > 0 THEN cand[1]
       ELSE IF special # Null THEN special
       ELSE findStartsWith(voices, <<"e","n">>)

pickVoiceFor(langCode, voices) ==
    LET cand == candidates(langCode, voices) IN
    IF Len(cand) > 0 THEN cand[1]
    ELSE IF langCode = <<"y","u","e">> THEN findStartsWith(voices, <<"z","h">>)
    ELSE IF langCode = <<"t","l">> THEN findStartsWith(voices, <<"f","i","l">>)
    ELSE findStartsWith(voices, <<"e","n">>)

----------------------------------------------------------------------------
(* The environment: voices of the device, answers of the services *)

Voice(name, lang) == [name |-> name, lang |-> lang]

\* voice lists the device may hold once its voices are loaded
LoadedVoiceLists ==
    { <<Voice("Samantha", <<"e","n","-","U","S">>)>>,
      <<Voice("Ting-Ting", <<"z","h","-","C","N">>),
        Voice("Daniel", <<"e","n","-","G","B">>),
        Voice("Monica", <<"e","s","-","E","S">>)>> }

\* a body of the reverse-geocoding service carrying address.country_code
GeoBody(code) == [address |-> [country_code |-> code]]

\* bodies without the field: JSON null, an error object, an address without it
GeoBodiesWithoutCode ==
    { Null,
      [error |-> "Unable to geocode"],
      [address |-> [country |-> "International waters"]] }

\* every key of COUNTRY_LANGS as the service spells it (lower case), an
\* unknown country, the empty code, and a code in upper case
GeoAll ==
    {GeoBody(toLowerCase(k)) : k \in DOMAIN COUNTRY_LANGS}
    \cup {GeoBody(<<"z","z">>), GeoBody(<<>>), GeoBody(<<"F","R">>)}
    \cup GeoBodiesWithoutCode

\* the answers used when several clicks overlap
GeoSample ==
    {GeoBody(<<"u","s">>), GeoBody(<<"c","n">>), [error |-> "Unable to geocode"]}

----------------------------------------------------------------------------
(* reverseCountryCode and the body of speakTestEmergencyAt *)

\* reverseCountryCode returning the code as the service spells it
reverseCountryCode_noUpperCase(data) ==
    IF /\ data # Null
       /\ "address" \in DOMAIN data
       /\ "country_code" \in DOMAIN data.address
    THEN data.address.country_code
    ELSE <<>>

\* (data?.address?.country_code || "").toUpperCase()
reverseCountryCode(data) ==
    LET raw == IF /\ data # Null
                  /\ "address" \in DOMAIN data
                  /\ "country_code" \in DOMAIN data.address
               THEN data.address.country_code
               ELSE <<>>
    IN toUpperCase(raw)

\* langsFor cutting the list one entry short
langsFor_sliceFour(cc) ==
    slice(IF cc \in DOMAIN COUNTRY_LANGS THEN COUNTRY_LANGS[cc] ELSE DEFAULT_LANGS, 0, 4)

\* (COUNTRY_LANGS[cc] || ["en","es","fr","ar","zh"]).slice(0, 5)
langsFor(cc) ==
    slice(IF cc \in DOMAIN COUNTRY_LANGS THEN COUNTRY_LANGS[cc] ELSE DEFAULT_LANGS, 0, 5)

\* phraseFor without the fallback: a missing entry gives no text
phraseFor_noFallback(code) ==
    IF code \in DOMAIN EMERGENCY_PHRASE THEN EMERGENCY_PHRASE[code] ELSE ""

\* EMERGENCY_PHRASE[code] || EMERGENCY_PHRASE.en
phraseFor(code) ==
    IF code \in DOMAIN EMERGENCY_PHRASE /\ EMERGENCY_PHRASE[code] # ""
    THEN EMERGENCY_PHRASE[code]
    ELSE EMERGENCY_PHRASE[<<"e","n">>]

\* one iteration of langs.forEach: the utterance handed to synth.speak.
\* rate and pitch are in hundredths (0.95, 1.0); voice is Null when u.voice
\* is left unset; by is the click whose announcement made the utterance.
utterance(code, voices, click) ==
    [text  |-> phraseFor(code),
     voice |-> pickVoiceFor(code, voices),
     rate  |-> 95,
     pitch |-> 100,
     by    |-> click]

\* enqueueAll speaking only the utterances that got a voice
enqueueAll_skipVoiceless(q, langs, voices, click) ==
    q \o SelectSeq([k \in 1..Len(langs) |-> utterance(langs[k], voices, click)],
                   LAMBDA u : u.voice # Null)

\* enqueueAll emptying the device queue (synth.cancel()) before it speaks
enqueueAll_cancelFirst(q, langs, voices, click) ==
    [k \in 1..Len(langs) |-> utterance(langs[k], voices, click)]

\* enqueueAll putting its first utterance in front of the waiting ones
enqueueAll_firstInFront(q, langs, voices, click) ==
    <<utterance(langs[1], voices, click)>> \o q
        \o [k \in 1..(Len(langs) - 1) |-> utterance(langs[k + 1], voices, click)]

\* langs.forEach(code => { ... synth.speak(u) })
enqueueAll(q, langs, voices, click) ==
    q \o [k \in 1..Len(langs) |-> utterance(langs[k], voices, click)]

----------------------------------------------------------------------------
(* State of the application *)

Clicks == 1..MaxClicks

\* geo is the fate of the country request of the announcement:
\* "none" (not issued), "pending", "ok" or "rejected"
AnnIdle == [pc |-> "none", tries |-> 0, polls |-> 0, voices |-> <<>>,
            geo |-> "none", data |-> Null, cc |-> <<>>, langs |-> <<>>]
WxIdle == [pc |-> "none", place |-> "none", weather |-> "none"]
TimerIdle == [pending |-> FALSE, id |-> 0]

\* Math.random().toString(36).slice(2): the identifier of click k
rippleId(k) == k

\* the application right after App is mounted, nothing clicked yet
AppMounted ==
    /\ queue = <<>>
    /\ alerts = 0
    /\ testMode = FALSE
    /\ ripples = <<>>
    /\ weatherBox = Null
    /\ nClicks = 0
    /\ ann = [i \in Clicks |-> AnnIdle]
    /\ wx = [i \in Clicks |-> WxIdle]
    /\ timers = [i \in Clicks |-> TimerIdle]
    /\ requests = {}

\* the browser: with or without a speech device, its voices loaded or not yet
Browser ==
    /\ speechSynthesis \in BOOLEAN
    /\ deviceVoices \in ({<<>>} \cup LoadedVoiceLists)
    /\ (~speechSynthesis => deviceVoices = <<>>)

PvIdle ==
    /\ pvLang = <<>>
    /\ pvVoices = <<>>
    /\ pvResult = Null
    /\ pvPc = "idle"

\* several overlapping clicks, the service answering from GeoSample
Init ==
    /\ AppMounted /\ Browser /\ PvIdle
    /\ service = GeoSample
    /\ clickBudget = MaxClicks

\* a single click, the service answering with any body of GeoAll
InitOne ==
    /\ AppMounted /\ Browser /\ PvIdle
    /\ service = GeoAll
    /\ clickBudget = 1

----------------------------------------------------------------------------
(* speakTestEmergencyAt *)

\* One run of waitVoices, and when it resolves the lines up to the await of
\* reverseCountryCode: the snapshot const voices = synth.getVoices() and the
\* fetch of the country.  The continuation of the resolved promise runs in
\* the same task as the poll, so the device list cannot change in between.
waitVoices(a) ==
    IF Len(deviceVoices) > 0
    THEN [a EXCEPT !.pc = "geocoding", !.polls = a.polls + 1, !.voices = deviceVoices,
                   !.geo = "pending"]
    ELSE IF a.tries > 10
    THEN [a EXCEPT !.pc = "geocoding", !.polls = a.polls + 1, !.tries = a.tries + 1,
                   !.voices = deviceVoices, !.geo = "pending"]
    ELSE [a EXCEPT !.pc = "polling", !.polls = a.polls + 1, !.tries = a.tries + 1]

\* speakStart without the return of line 113: it alerts and goes on
speakStart_noReturn(a) == waitVoices(a)

\* speakTestEmergencyAt up to its first suspension
speakStart(a) ==
    IF ~speechSynthesis
    THEN [a EXCEPT !.pc = "alerted"]
    ELSE waitVoices(a)

countryRequests(k, a) ==
    IF a.pc = "geocoding" THEN {[click |-> k, kind |-> "country"]} ELSE {}

\* Click starting the announcement whatever testMode is
Click_ignoresTestMode ==
    /\ nClicks < clickBudget
    /\ LET k == nClicks + 1
           a == speakStart(ann[k])
       IN /\ nClicks' = k
          /\ ripples' = Append(ripples, [id |-> k, at |-> k])
          /\ timers' = [timers EXCEPT ![k] = [pending |-> TRUE, id |-> k]]
          /\ weatherBox' = [loading |-> TRUE, by |-> k]
          /\ wx' = [wx EXCEPT ![k] = [pc |-> "await", place |-> "pending", weather |-> "pending"]]
          /\ ann' = [ann EXCEPT ![k] = a]
          /\ alerts' = IF a.pc = "alerted" THEN alerts + 1 ELSE alerts
          /\ requests' = requests
                 \cup {[click |-> k, kind |-> "place"], [click |-> k, kind |-> "weather"]}
                 \cup countryRequests(k, a)
    /\ UNCHANGED <<speechSynthesis, deviceVoices, queue, testMode, service, clickBudget, pvVars>>

\* The values handleWeatherClick gives setWeatherBox.  by is the click whose
\* invocation wrote the box; placeName and weather stand for the answers of
\* the two services for the coordinates of that click.
LoadingBox(k) == [loading |-> TRUE, by |-> k]

ResultBox(k) ==
    [loading |-> FALSE, placeName |-> <<"place", k>>, weather |-> <<"weather", k>>, by |-> k]

ErrorBox(k) == [loading |-> FALSE, error |-> "Couldn't fetch weather right now.", by |-> k]

\* the click handler of ClickRippleLayer: addRipple, handleWeatherClick up to
\* its await, and with speakEnabled speakTestEmergencyAt up to its first await
Click ==
    /\ nClicks < clickBudget
    /\ LET k == nClicks + 1
           a == IF testMode THEN speakStart(ann[k]) ELSE ann[k]
       IN /\ nClicks' = k
          /\ ripples' = Append(ripples, [id |-> rippleId(k), at |-> k])
          /\ timers' = [timers EXCEPT ![k] = [pending |-> TRUE, id |-> rippleId(k)]]
          /\ weatherBox' = LoadingBox(k)
          /\ wx' = [wx EXCEPT ![k] = [pc |-> "await", place |-> "pending", weather |-> "pending"]]
          /\ ann' = [ann EXCEPT ![k] = a]
          /\ alerts' = IF a.pc = "alerted" THEN alerts + 1 ELSE alerts
          /\ requests' = requests
                 \cup {[click |-> k, kind |-> "place"], [click |-> k, kind |-> "weather"]}
                 \cup countryRequests(k, a)
    /\ UNCHANGED <<speechSynthesis, deviceVoices, queue, testMode, service, clickBudget, pvVars>>

\* the 200ms timer of waitVoices fires
WaitVoicesTimer(i) ==
    /\ ann[i].pc = "polling"
    /\ LET a == waitVoices(ann[i])
       IN /\ ann' = [ann EXCEPT ![i] = a]
          /\ requests' = requests \cup countryRequests(i, a)
    /\ UNCHANGED <<speechSynthesis, deviceVoices, queue, alerts, testMode, ripples, weatherBox,
                   nClicks, wx, timers, service, clickBudget, pvVars>>

\* CountryResolved reading synth.getVoices() again after the await
CountryResolved_freshVoices(i, data) ==
    /\ ann[i].pc = "geocoding"
    /\ data \in service
    /\ LET cc == reverseCountryCode(data)
           langs == langsFor(cc)
       IN /\ queue' = enqueueAll(queue, langs, deviceVoices, i)
          /\ ann' = [ann EXCEPT ![i] = [@ EXCEPT !.pc = "done", !.geo = "ok", !.data = data,
                                                 !.cc = cc, !.langs = langs]]
    /\ UNCHANGED <<speechSynthesis, deviceVoices, alerts, testMode, ripples, weatherBox,
                   nClicks, wx, timers, requests, service, clickBudget, pvVars>>

\* reverseCountryCode resolves with the parsed body data; lines 129-141
CountryResolved(i, data) ==
    /\ ann[i].pc = "geocoding"
    /\ data \in service
    /\ LET cc == reverseCountryCode(data)
           langs == langsFor(cc)
       IN /\ queue' = enqueueAll(queue, langs, ann[i].voices, i)
          /\ ann' = [ann EXCEPT ![i] = [@ EXCEPT !.pc = "done", !.geo = "ok", !.data = data,
                                                 !.cc = cc, !.langs = langs]]
    /\ UNCHANGED <<speechSynthesis, deviceVoices, alerts, testMode, ripples, weatherBox,
                   nClicks, wx, timers, requests, service, clickBudget, pvVars>>

\* CountryFailed with a catch around line 128 that goes on with the default list
CountryFailed_recovered(i) ==
    /\ ann[i].pc = "geocoding"
    /\ queue' = enqueueAll(queue, langsFor(<<>>), ann[i].voices, i)
    /\ ann' = [ann EXCEPT ![i] = [@ EXCEPT !.pc = "done", !.geo = "rejected",
                                           !.langs = langsFor(<<>>)]]
    /\ UNCHANGED <<speechSynthesis, deviceVoices, alerts, testMode, ripples, weatherBox,
                   nClicks, wx, timers, requests, service, clickBudget, pvVars>>

\* fetch or res.json() rejects inside reverseCountryCode: the rejection
\* leaves speakTestEmergencyAt at line 128
CountryFailed(i) ==
    /\ ann[i].pc = "geocoding"
    /\ ann' = [ann EXCEPT ![i] = [@ EXCEPT !.pc = "failed", !.geo = "rejected"]]
    /\ UNCHANGED <<speechSynthesis, deviceVoices, queue, alerts, testMode, ripples, weatherBox,
                   nClicks, wx, timers, requests, service, clickBudget, pvVars>>

\* the device publishes its voices (they may load after startup)
VoicesLoaded ==
    /\ speechSynthesis
    /\ deviceVoices = <<>>
    /\ deviceVoices' \in LoadedVoiceLists
    /\ UNCHANGED <<speechSynthesis, queue, alerts, testMode, ripples, weatherBox, nClicks,
                   ann, wx, timers, requests, service, clickBudget, pvVars>>

----------------------------------------------------------------------------
(* App: test mode, ripples, weather panel *)

\* onClick of the Test Emergency button
ToggleTestMode ==
    /\ testMode' = ~testMode
    /\ UNCHANGED <<speechSynthesis, deviceVoices, queue, alerts, ripples, weatherBox, nClicks,
                   ann, wx, timers, requests, service, clickBudget, pvVars>>

\* RippleTimeout dropping the oldest marker instead of its own
RippleTimeout_dropOldest(i) ==
    /\ timers[i].pending
    /\ ripples' = Tail(ripples)
    /\ timers' = [timers EXCEPT ![i].pending = FALSE]
    /\ UNCHANGED <<speechSynthesis, deviceVoices, queue, alerts, testMode, weatherBox, nClicks,
                   ann, wx, requests, service, clickBudget, pvVars>>

\* the 750ms timer set by addRipple fires
RippleTimeout(i) ==
    /\ timers[i].pending
    /\ ripples' = SelectSeq(ripples, LAMBDA r : r.id # timers[i].id)
    /\ timers' = [timers EXCEPT ![i].pending = FALSE]
    /\ UNCHANGED <<speechSynthesis, deviceVoices, queue, alerts, testMode, weatherBox, nClicks,
                   ann, wx, requests, service, clickBudget, pvVars>>

\* weatherJoin dropping the outcome when the card was closed meanwhile
weatherJoin_ifOpen(i, w) ==
    IF w.pc # "await" \/ weatherBox = Null THEN weatherBox
    ELSE IF w.place = "fail" \/ w.weather = "fail"
    THEN ErrorBox(i)
    ELSE IF w.place = "ok" /\ w.weather = "ok"
    THEN ResultBox(i)
    ELSE weatherBox

\* weatherJoin showing a result as soon as one of the two answers is there
weatherJoin_firstAnswer(i, w) ==
    IF w.pc # "await" THEN weatherBox
    ELSE IF w.place = "fail" \/ w.weather = "fail"
    THEN ErrorBox(i)
    ELSE IF w.place = "ok" \/ w.weather = "ok"
    THEN ResultBox(i)
    ELSE weatherBox

\* weatherJoin applying only the outcome of the latest click
weatherJoin_latestOnly(i, w) ==
    IF w.pc # "await" \/ i # nClicks THEN weatherBox
    ELSE IF w.place = "fail" \/ w.weather = "fail"
    THEN ErrorBox(i)
    ELSE IF w.place = "ok" /\ w.weather = "ok"
    THEN ResultBox(i)
    ELSE weatherBox

\* weatherJoin without the catch block: a failure leaves the box as it is
weatherJoin_noCatch(i, w) ==
    IF w.pc # "await" THEN weatherBox
    ELSE IF w.place = "ok" /\ w.weather = "ok"
    THEN ResultBox(i)
    ELSE weatherBox

\* handleWeatherClick after one of its two requests settled: Promise.all
\* rejects on the first failure and fulfils once both results are there
weatherJoin(i, w) ==
    IF w.pc # "await" THEN weatherBox
    ELSE IF w.place = "fail" \/ w.weather = "fail"
    THEN ErrorBox(i)
    ELSE IF w.place = "ok" /\ w.weather = "ok"
    THEN ResultBox(i)
    ELSE weatherBox

\* where handleWeatherClick stands: "await" at Promise.all, "done" after the
\* try block, "caught" after the catch block
weatherPc(w) ==
    IF w.pc # "await" THEN w.pc
    ELSE IF w.place = "fail" \/ w.weather = "fail" THEN "caught"
    ELSE IF w.place = "ok" /\ w.weather = "ok" THEN "done"
    ELSE "await"

WeatherSettle(i, w) ==
    /\ weatherBox' = weatherJoin(i, w)
    /\ wx' = [wx EXCEPT ![i] = [w EXCEPT !.pc = weatherPc(w)]]
    /\ UNCHANGED <<speechSynthesis, deviceVoices, queue, alerts, testMode, ripples, nClicks,
                   ann, timers, requests, service, clickBudget, pvVars>>

PlaceResolved(i) ==
    /\ wx[i].place = "pending"
    /\ WeatherSettle(i, [wx[i] EXCEPT !.place = "ok"])

PlaceFailed(i) ==
    /\ wx[i].place = "pending"
    /\ WeatherSettle(i, [wx[i] EXCEPT !.place = "fail"])

WeatherResolved(i) ==
    /\ wx[i].weather = "pending"
    /\ WeatherSettle(i, [wx[i] EXCEPT !.weather = "ok"])

WeatherFailed(i) ==
    /\ wx[i].weather = "pending"
    /\ WeatherSettle(i, [wx[i] EXCEPT !.weather = "fail"])

\* onClose of WeatherInfoCard; the card is rendered only for a non-null box
CloseWeatherCard ==
    /\ weatherBox # Null
    /\ weatherBox' = Null
    /\ UNCHANGED <<speechSynthesis, deviceVoices, queue, alerts, testMode, ripples, nClicks,
                   ann, wx, timers, requests, service, clickBudget, pvVars>>

Next ==
    \/ Click
    \/ \E i \in Clicks : WaitVoicesTimer(i)
    \/ \E i \in Clicks : \E data \in service : CountryResolved(i, data)
    \/ \E i \in Clicks : CountryFailed(i)
    \/ VoicesLoaded
    \/ ToggleTestMode
    \/ \E i \in Clicks : RippleTimeout(i)
    \/ \E i \in Clicks : PlaceResolved(i)
    \/ \E i \in Clicks : PlaceFailed(i)
    \/ \E i \in Clicks : WeatherResolved(i)
    \/ \E i \in Clicks : WeatherFailed(i)
    \/ CloseWeatherCard

\* the actions of the announcement: the weather requests and the ripple
\* timers of the clicks stay pending (their handlers neither read nor write
\* ann, queue, alerts or deviceVoices)
NextSpeech ==
    \/ Click
    \/ \E i \in Clicks : WaitVoicesTimer(i)
    \/ \E i \in Clicks : \E data \in service : CountryResolved(i, data)
    \/ \E i \in Clicks : CountryFailed(i)
    \/ VoicesLoaded
    \/ ToggleTestMode

Spec == Init /\ [][NextSpeech]_vars

\* the actions of the weather panel and of the ripple markers: the voice
\* waits and the country requests of the clicks stay pending (their handlers
\* neither read nor write weatherBox, wx, ripples or timers)
NextPanel ==
    \/ Click
    \/ ToggleTestMode
    \/ \E i \in Clicks : RippleTimeout(i)
    \/ \E i \in Clicks : PlaceResolved(i)
    \/ \E i \in Clicks : PlaceFailed(i)
    \/ \E i \in Clicks : WeatherResolved(i)
    \/ \E i \in Clicks : WeatherFailed(i)
    \/ CloseWeatherCard

SpecPanel == Init /\ [][NextPanel]_vars

SpecOne == InitOne /\ [][Next]_vars

----------------------------------------------------------------------------
(* pickVoiceFor on its own: every language code against every voice list *)

\* the language codes the program passes to pickVoiceFor and looks up
LangCodes ==
    {COUNTRY_LANGS[c][k] : c \in DOMAIN COUNTRY_LANGS, k \in 1..5}
    \cup {DEFAULT_LANGS[k] : k \in 1..5}
    \cup DOMAIN EMERGENCY_PHRASE

\* voice tags: regional tags, tags in upper case, the empty tag
VoiceTags ==
    { <<"e","n","-","U","S">>, <<"E","N","-","G","B">>, <<"z","h","-","C","N">>,
      <<"Z","H","-","T","W">>, <<"y","u","e","-","H","K">>, <<"f","i","l","-","P","H">>,
      <<"t","l","-","P","H">>, <<"e","s","-","E","S">>, <<>> }

\* the voice lists of a given length; a voice is named by its position
VoiceListsOfLen(n) ==
    {[i \in 1..n |-> Voice(i, tags[i])] : tags \in [1..n -> VoiceTags]}

VoiceLists == UNION {VoiceListsOfLen(n) : n \in 0..MaxVoices}

InitPick ==
    /\ AppMounted
    /\ speechSynthesis = TRUE
    /\ deviceVoices = <<>>
    /\ service = {}
    /\ clickBudget = 0
    /\ pvLang \in LangCodes
    /\ pvVoices \in VoiceLists
    /\ pvResult = Null
    /\ pvPc = "ready"

PickVoice ==
    /\ pvPc = "ready"
    /\ pvResult' = pickVoiceFor(pvLang, pvVoices)
    /\ pvPc' = "returned"
    /\ UNCHANGED <<appVars, pvLang, pvVoices>>

NextPick == PickVoice

SpecPick == InitPick /\ [][NextPick]_vars

----------------------------------------------------------------------------
(* Vocabulary of the properties *)

en == <<"e","n">>
zh == <<"z","h">>
fil == <<"f","i","l">>
yue == <<"y","u","e">>
tl == <<"t","l">>

\* the utterances click i put on the device queue, in queue order
Segment(i) == SelectSeq(queue, LAMBDA u : u.by = i)

Done(i) == ann[i].pc = "done"

\* the text the phrase table gives a language: its entry, else the en entry
TableText(code) ==
    IF code \in DOMAIN EMERGENCY_PHRASE THEN EMERGENCY_PHRASE[code] ELSE EMERGENCY_PHRASE[en]

\* the segment of click i speaks the languages of list, one each, in order
Speaks(i, list) ==
    /\ Len(Segment(i)) = Len(list)
    /\ \A k \in 1..Len(list) : Segment(i)[k].text = TableText(list[k])

\* address.country_code of a response body, the empty string when absent
RawCode(data) ==
    IF data # Null /\ "address" \in DOMAIN data /\ "country_code" \in DOMAIN data.address
    THEN data.address.country_code
    ELSE <<>>

\* tag and code agree on the length of code, compared case-insensitively
PrefixCI(tag, code) ==
    /\ Len(tag) >= Len(code)
    /\ toLowerCase(SubSeq(tag, 1, Len(code))) = toLowerCase(code)

\* voice i of the harness is the first whose tag starts with prefix as spelled
FirstStarting(i, prefix) ==
    /\ startsWith(pvVoices[i].lang, prefix)
    /\ \A j \in 1..(i - 1) : ~startsWith(pvVoices[j].lang, prefix)

SomeStarting(prefix) == \E i \in 1..Len(pvVoices) : startsWith(pvVoices[i].lang, prefix)

NoPrefixMatch == \A i \in 1..Len(pvVoices) : ~PrefixCI(pvVoices[i].lang, pvLang)

Returned == pvPc = "returned"

----------------------------------------------------------------------------
(* Properties of the announcement, checked under SpecOne *)

\* C1: a completed announcement for a country of COUNTRY_LANGS has enqueued
\* exactly one utterance per language of the country's list cut to its first
\* 5 entries, in list order, each with the phrase-table text of its language
\* (US: en, es, zh, vi, ar); an announcement that has not completed has
\* enqueued nothing, and none ever enqueues more than 5 utterances.
C1_OneUtterancePerLanguage ==
    \A i \in Clicks :
        /\ Len(Segment(i)) <= 5
        /\ (~Done(i) => Segment(i) = <<>>)
        /\ (Done(i) /\ ann[i].cc \in DOMAIN COUNTRY_LANGS
               => Speaks(i, slice(COUNTRY_LANGS[ann[i].cc], 0, 5)))
        /\ (Done(i) /\ ann[i].cc = <<"U","S">>
               => [k \in 1..5 |-> Segment(i)[k].text] =
                     << "THIS IS A TEST EMERGENCY",
                        "ESTA ES UNA EMERGENCIA DE PRUEBA",
                        EMERGENCY_PHRASE[zh],
                        "DAY LA TINH HUONG KHAN CAP THU NGHIEM",
                        EMERGENCY_PHRASE[<<"a","r">>] >>)

C1_Witness ==
    /\ Done(1)
    /\ ann[1].data = GeoBody(<<"u","s">>)
    /\ Len(queue) = 5
    /\ queue[4].text = "DAY LA TINH HUONG KHAN CAP THU NGHIEM"

\* C2: the country code of an announcement is the service's
\* address.country_code in upper case, the empty string when the body has no
\* such field; when that code is no key of COUNTRY_LANGS the announcement
\* speaks exactly en, es, fr, ar, zh in this order, and when it is a key
\* (the service spells "us", the key is "US") it speaks the key's list.
C2_DefaultLanguages ==
    \A i \in Clicks :
        Done(i) =>
            LET key == toUpperCase(RawCode(ann[i].data)) IN
            /\ ann[i].cc = key
            /\ (key \notin DOMAIN COUNTRY_LANGS
                   => /\ ann[i].langs = <<en, <<"e","s">>, <<"f","r">>, <<"a","r">>, zh>>
                      /\ Speaks(i, <<en, <<"e","s">>, <<"f","r">>, <<"a","r">>, zh>>))
            /\ (key \in DOMAIN COUNTRY_LANGS
                   => /\ ann[i].langs = COUNTRY_LANGS[key]
                      /\ Speaks(i, COUNTRY_LANGS[key]))

C2_Witness ==
    /\ Done(1)
    /\ ann[1].data = [error |-> "Unable to geocode"]
    /\ ann[1].cc = <<>>
    /\ Len(queue) = 5
    /\ queue[3].text = "Ceci est une alerte d'urgence de test"

\* C3: the utterance of a language that has no entry in EMERGENCY_PHRASE
\* carries the en phrase, and no utterance carries an empty text.
C3_MissingPhraseIsEnglish ==
    /\ \A k \in 1..Len(queue) : queue[k].text # ""
    /\ \A i \in Clicks :
          Done(i) =>
             /\ Len(Segment(i)) = Len(ann[i].langs)
             /\ \A k \in 1..Len(ann[i].langs) :
                   ann[i].langs[k] \notin DOMAIN EMERGENCY_PHRASE
                      => Segment(i)[k].text = "THIS IS A TEST EMERGENCY"

C3_Witness ==
    /\ Done(1)
    /\ ann[1].cc = <<"C","N">>
    /\ ann[1].langs[2] = yue
    /\ yue \notin DOMAIN EMERGENCY_PHRASE
    /\ Len(queue) = 5
    /\ queue[2].text = "THIS IS A TEST EMERGENCY"

\* C9: with an empty voice list pickVoiceFor returns absent for every
\* language; an announcement whose voice snapshot is empty enqueues its
\* utterances with no voice assigned, and every completed announcement has
\* enqueued one utterance per language whatever its voice snapshot is.
C9_NoVoicesStillSpeaks ==
    /\ \A code \in LangCodes : pickVoiceFor(code, <<>>) = Null
    /\ \A i \in Clicks :
          Done(i) =>
             /\ Len(Segment(i)) = Len(ann[i].langs)
             /\ Len(Segment(i)) = 5
             /\ (ann[i].voices = <<>>
                    => \A k \in 1..Len(Segment(i)) : Segment(i)[k].voice = Null)

C9_Witness ==
    /\ Done(1)
    /\ ann[1].voices = <<>>
    /\ ann[1].polls = 12
    /\ Len(queue) = 5
    /\ \A k \in 1..5 : queue[k].voice = Null

\* C10: without a speech device an announcement shows the alert and ends:
\* no poll of the voice list, no country request, no utterance; each
\* test-mode click shows one alert.
C10_NoDeviceNoAction ==
    ~speechSynthesis =>
        /\ queue = <<>>
        /\ \A i \in Clicks :
              /\ ann[i].pc \in {"none", "alerted"}
              /\ ann[i].polls = 0
              /\ ann[i].tries = 0
        /\ \A r \in requests : r.kind # "country"
        /\ alerts = Cardinality({i \in Clicks : ann[i].pc = "alerted"})

C10_Witness ==
    /\ ~speechSynthesis
    /\ nClicks = 1
    /\ ann[1].pc = "alerted"
    /\ alerts = 1
    /\ queue = <<>>

----------------------------------------------------------------------------
(* Properties of pickVoiceFor, checked under SpecPick *)

\* C4: when some voice's tag starts with the language code, both compared
\* case-insensitively, pickVoiceFor returns the first such voice of the
\* list, whatever voices the fallback rules (zh, fil, en) would find.
C4_FirstPrefixMatch ==
    Returned =>
        \A i \in 1..Len(pvVoices) :
            (/\ PrefixCI(pvVoices[i].lang, pvLang)
             /\ \A j \in 1..(i - 1) : ~PrefixCI(pvVoices[j].lang, pvLang))
                => pvResult = pvVoices[i]

C4_Witness ==
    /\ Returned
    /\ pvLang = <<"e","s">>
    /\ Len(pvVoices) = 3
    /\ pvVoices[1].lang = <<"e","n","-","U","S">>
    /\ pvVoices[2].lang = <<"e","s","-","E","S">>
    /\ pvVoices[3].lang = <<"e","s","-","E","S">>
    /\ pvResult = pvVoices[2]

\* C5: for yue, when no tag matches yue by the prefix rule and some tag
\* starts with zh, pickVoiceFor returns the first voice whose tag starts
\* with zh.
C5_YueFallsBackToZh ==
    (Returned /\ pvLang = yue /\ NoPrefixMatch /\ SomeStarting(zh)) =>
        \A i \in 1..Len(pvVoices) : FirstStarting(i, zh) => pvResult = pvVoices[i]

C5_Witness ==
    /\ Returned
    /\ pvLang = yue
    /\ Len(pvVoices) = 2
    /\ pvVoices[1].lang = <<"e","n","-","U","S">>
    /\ pvVoices[2].lang = <<"z","h","-","C","N">>
    /\ pvResult = pvVoices[2]

\* C6: for tl, when no tag matches tl by the prefix rule and some tag
\* starts with fil, pickVoiceFor returns the first voice whose tag starts
\* with fil.
C6_TlFallsBackToFil ==
    (Returned /\ pvLang = tl /\ NoPrefixMatch /\ SomeStarting(fil)) =>
        \A i \in 1..Len(pvVoices) : FirstStarting(i, fil) => pvResult = pvVoices[i]

C6_Witness ==
    /\ Returned
    /\ pvLang = tl
    /\ Len(pvVoices) = 2
    /\ pvVoices[1].lang = <<"e","n","-","U","S">>
    /\ pvVoices[2].lang = <<"f","i","l","-","P","H">>
    /\ pvResult = pvVoices[2]

\* C7: for a code other than yue and tl that no tag matches by the prefix
\* rule, pickVoiceFor returns the first voice of the list whose tag starts
\* with en, and nothing when there is none.
C7_OthersFallBackToEn ==
    (Returned /\ pvLang \notin {yue, tl} /\ NoPrefixMatch) =>
        /\ \A i \in 1..Len(pvVoices) : FirstStarting(i, en) => pvResult = pvVoices[i]
        /\ (~SomeStarting(en) => pvResult = Null)

C7_Witness ==
    /\ Returned
    /\ pvLang = <<"f","r">>
    /\ Len(pvVoices) = 3
    /\ pvVoices[1].lang = <<"z","h","-","C","N">>
    /\ pvVoices[2].lang = <<"e","n","-","U","S">>
    /\ pvVoices[3].lang = <<"e","n","-","U","S">>
    /\ pvResult = pvVoices[2]

\* the fallback prefix that applies to a code: zh for yue, fil for tl, en
\* for every other code
FallbackOf(code) == IF code = yue THEN zh ELSE IF code = tl THEN fil ELSE en

\* C8, as amended: pickVoiceFor returns absent exactly when no tag matches
\* the code by the prefix rule and no tag starts with the one fallback
\* prefix of that code (zh for yue, fil for tl, en for the others); a voice
\* whose tag starts with en is no fallback for yue or tl.
C8_AbsentIffNoApplicableRule ==
    Returned =>
        (pvResult = Null <=> (NoPrefixMatch /\ ~SomeStarting(FallbackOf(pvLang))))

C8_Witness ==
    /\ Returned
    /\ pvLang = yue
    /\ Len(pvVoices) = 1
    /\ pvVoices[1].lang = <<"e","n","-","U","S">>
    /\ pvResult = Null

\* C8, as stated: pickVoiceFor returns absent only when no voice is matched
\* by any of the rules; with a voice whose tag starts with en in the list a
\* voice is returned.
C8_AbsentOnlyIfNoRuleMatches ==
    Returned =>
        (pvResult = Null =>
            /\ NoPrefixMatch
            /\ ~(pvLang = yue /\ SomeStarting(zh))
            /\ ~(pvLang = tl /\ SomeStarting(fil))
            /\ ~SomeStarting(en))

----------------------------------------------------------------------------
(* Properties of the voice wait, the failed country request and the weather
   path, checked under SpecOne *)

\* C11: in the voice wait of an announcement the voice list of the device is
\* polled at most 10 times; the wait ends with the 10th poll at the latest.
C11_AtMostTenPolls ==
    \A i \in Clicks :
        /\ ann[i].polls <= 10
        /\ (ann[i].pc = "polling" => ann[i].polls < 10)

\* C12: an announcement whose country request was rejected has failed, it is
\* not carried on by any recovery, and it has enqueued no utterance.
C12_FailedGeocodeSpeaksNothing ==
    \A i \in Clicks :
        ann[i].geo = "rejected" =>
            /\ ann[i].pc = "failed"
            /\ Segment(i) = <<>>
            /\ ann[i].langs = <<>>

C12_Witness ==
    /\ ann[1].geo = "rejected"
    /\ ann[1].pc = "failed"
    /\ [click |-> 1, kind |-> "country"] \in requests
    /\ queue = <<>>

HasRequest(i, kind) == [click |-> i, kind |-> kind] \in requests

\* C13: the place request and the weather request of a click are both issued
\* in the click, before either has settled; the panel shows the combined
\* result of a click only when both of its requests have succeeded, and
\* handleWeatherClick is past its await with a result exactly then.
C13_BothIssuedThenJoined ==
    \A i \in Clicks :
        /\ (i <= nClicks <=> (HasRequest(i, "place") /\ HasRequest(i, "weather")))
        /\ (i <= nClicks <=> wx[i].pc # "none")
        /\ (wx[i].pc = "done" <=> (wx[i].place = "ok" /\ wx[i].weather = "ok"))
        /\ ((weatherBox # Null /\ weatherBox.by = i /\ "placeName" \in DOMAIN weatherBox)
               => /\ wx[i].place = "ok" /\ wx[i].weather = "ok"
                  /\ weatherBox = ResultBox(i))
        /\ ((weatherBox # Null /\ weatherBox.by = i /\ weatherBox.loading)
               => "placeName" \notin DOMAIN weatherBox /\ "weather" \notin DOMAIN weatherBox)

C13_Witness ==
    /\ wx[1].pc = "done"
    /\ weatherBox # Null
    /\ ~weatherBox.loading
    /\ weatherBox.placeName = <<"place", 1>>
    /\ weatherBox.weather = <<"weather", 1>>

\* C14: a failure of the place request or of the weather request is caught:
\* handleWeatherClick is in its catch block as soon as one of them has
\* failed, the box it wrote has loading false, the generic error message
\* and no weather data, and the other request is neither cancelled nor
\* withdrawn.
C14_WeatherFailureCaught ==
    \A i \in Clicks :
        /\ wx[i].pc \in {"none", "await", "done", "caught"}
        /\ (wx[i].pc = "caught" <=> (wx[i].place = "fail" \/ wx[i].weather = "fail"))
        /\ wx[i].pc = "caught" =>
              /\ wx[i].place \in {"pending", "ok", "fail"}
              /\ wx[i].weather \in {"pending", "ok", "fail"}
              /\ HasRequest(i, "place") /\ HasRequest(i, "weather")
              /\ (weatherBox # Null /\ weatherBox.by = i) =>
                    /\ weatherBox.loading = FALSE
                    /\ DOMAIN weatherBox = {"loading", "error", "by"}
                    /\ weatherBox.error = "Couldn't fetch weather right now."

C14_Witness ==
    /\ wx[1].pc = "caught"
    /\ wx[1].place = "fail"
    /\ wx[1].weather = "ok"
    /\ weatherBox # Null
    /\ weatherBox.loading = FALSE
    /\ weatherBox.error = "Couldn't fetch weather right now."

----------------------------------------------------------------------------
(* Properties of overlapping clicks on the panel and the ripples, checked
   under SpecPanel *)

\* C15: a click leaves the weather lookups and the announcements of the
\* earlier clicks as they are; a lookup that completes writes its own
\* outcome into the weather box whichever click is the latest, and the box
\* changes only by a click, by a completing lookup or by closing the card:
\* it holds the outcome of the lookup that completed last.
C15_LastWriteWins ==
    [][ /\ \A i \in Clicks :
              /\ (wx[i].pc = "await" /\ wx'[i].pc = "done") => weatherBox' = ResultBox(i)
              /\ (wx[i].pc = "await" /\ wx'[i].pc = "caught") => weatherBox' = ErrorBox(i)
              /\ (nClicks' # nClicks /\ i <= nClicks) => (wx'[i] = wx[i] /\ ann'[i] = ann[i])
              /\ wx[i].pc \in {"done", "caught"} => wx'[i].pc = wx[i].pc
        /\ weatherBox' # weatherBox =>
              \/ nClicks' = nClicks + 1 /\ weatherBox' = LoadingBox(nClicks')
              \/ weatherBox' = Null
              \/ \E i \in Clicks : wx[i].pc = "await" /\ wx'[i].pc \in {"done", "caught"}
      ]_vars

C15_Witness ==
    /\ nClicks = 2
    /\ wx[1].pc = "done"
    /\ wx[2].pc = "done"
    /\ weatherBox = ResultBox(1)

\* C16: the ripple list holds exactly one marker for every click whose 750ms
\* timer has not fired yet, under the identifier of that click and in click
\* order, and no other marker: a timer removes the marker of its click and
\* no other, and when every timer has fired the list is empty.
C16_RipplesIsolated ==
    /\ \A i \in Clicks :
          Cardinality({k \in 1..Len(ripples) : ripples[k].id = rippleId(i)})
             = IF timers[i].pending THEN 1 ELSE 0
    /\ \A k \in 1..Len(ripples) :
          /\ ripples[k].id = rippleId(ripples[k].at)
          /\ timers[ripples[k].at].pending
          /\ \A j \in 1..(k - 1) : ripples[j].at < ripples[k].at
    /\ Len(ripples) = Cardinality({i \in Clicks : timers[i].pending})
    /\ ((\A i \in Clicks : ~timers[i].pending) => ripples = <<>>)

C16_Witness ==
    /\ nClicks = 2
    /\ ~timers[2].pending
    /\ timers[1].pending
    /\ ripples = <<[id |-> rippleId(1), at |-> 1]>>

----------------------------------------------------------------------------
(* Properties of overlapping announcements, checked under Spec *)

\* C17: the device queue changes only by an announcement appending its
\* utterances, and that announcement is complete in the very step that
\* enqueues them; no step removes or replaces an utterance already enqueued.
C17_QueueOnlyGrows ==
    [][ /\ Len(queue') >= Len(queue)
        /\ SubSeq(queue', 1, Len(queue)) = queue
        /\ queue' # queue =>
              \E i \in Clicks :
                  /\ ann[i].pc = "geocoding"
                  /\ ann'[i].pc = "done"
                  /\ queue' = queue \o SelectSeq(queue', LAMBDA u : u.by = i)
                  /\ \A j \in Clicks \ {i} : ann'[j] = ann[j]
      ]_vars

C17_Witness ==
    /\ Done(1)
    /\ Done(2)
    /\ Len(queue) = 10
    /\ Len(Segment(1)) = 5
    /\ Len(Segment(2)) = 5

\* C18: a click starts an announcement only when testMode is on at the click:
\* with the mode off the click issues no country request, shows no alert and
\* enqueues nothing, and switching the mode on later starts nothing for it;
\* every click adds its ripple marker and starts its weather lookup.
C18_OnlyInTestMode ==
    [][ /\ nClicks' = nClicks + 1 =>
              LET k == nClicks' IN
              /\ ripples' = Append(ripples, [id |-> rippleId(k), at |-> k])
              /\ timers'[k].pending
              /\ wx'[k].pc = "await"
              /\ weatherBox' = LoadingBox(k)
              /\ [click |-> k, kind |-> "place"] \in requests'
              /\ [click |-> k, kind |-> "weather"] \in requests'
              /\ queue' = queue
              /\ (testMode => ann'[k].pc \in {"alerted", "polling", "geocoding"})
              /\ (~testMode => /\ ann'[k] = AnnIdle
                               /\ alerts' = alerts
                               /\ [click |-> k, kind |-> "country"] \notin requests')
        /\ \A i \in Clicks :
              /\ (i <= nClicks /\ ann[i].pc = "none") => ann'[i] = AnnIdle
              /\ ann'[i].pc = "none" =>
                    /\ [click |-> i, kind |-> "country"] \notin requests'
                    /\ \A k \in 1..Len(queue') : queue'[k].by # i
      ]_vars

C18_Witness ==
    /\ nClicks = 2
    /\ ann[1].pc = "none"
    /\ Done(2)
    /\ testMode
    /\ HasRequest(1, "place") /\ HasRequest(1, "weather") /\ ~HasRequest(1, "country")
    /\ HasRequest(2, "country")
    /\ Len(ripples) = 2
    /\ Len(queue) = 5
    /\ Segment(1) = <<>>

\* C19: the utterances of an announcement are next to each other in the
\* device queue, five of them, with no utterance of another announcement in
\* between, however the announcements of several clicks overlap.
C19_SegmentsContiguous ==
    /\ \A j, l \in 1..Len(queue) :
          (j < l /\ queue[j].by = queue[l].by)
             => \A k \in j..l : queue[k].by = queue[j].by
    /\ \A i \in Clicks : Len(Segment(i)) \in {0, 5}

C19_Witness ==
    /\ Done(1)
    /\ Done(2)
    /\ ann[1].polls > 1
    /\ Len(queue) = 10
    /\ \A k \in 1..5 : queue[k].by = 2
    /\ \A k \in 6..10 : queue[k].by = 1

\* C20: the country request of an announcement is issued when its voice wait
\* has ended and not before (the wait ends on a non-empty list or on the
\* 12th empty poll), and every utterance gets the voice pickVoiceFor finds in
\* the voice list read at that moment: voices the device publishes while the
\* country request is pending are not used.
C20_VoicesSnapshotBeforeGeocode ==
    \A i \in Clicks :
        /\ HasRequest(i, "country") <=> ann[i].pc \in {"geocoding", "failed", "done"}
        /\ HasRequest(i, "country") <=> ann[i].geo # "none"
        /\ HasRequest(i, "country") =>
              /\ ann[i].polls >= 1
              /\ (ann[i].voices = <<>> => ann[i].polls = 12)
              /\ (ann[i].voices # <<>> => ann[i].voices = deviceVoices)
        /\ ann[i].pc = "polling" => (ann[i].voices = <<>> /\ ann[i].polls \in 1..11)
        /\ Done(i) =>
              /\ Len(Segment(i)) = Len(ann[i].langs)
              /\ \A k \in 1..Len(ann[i].langs) :
                    Segment(i)[k].voice = pickVoiceFor(ann[i].langs[k], ann[i].voices)

C20_Witness ==
    /\ Done(1)
    /\ ann[1].voices = <<>>
    /\ deviceVoices # <<>>
    /\ ann[1].cc = <<"U","S">>
    /\ pickVoiceFor(en, deviceVoices) # Null
    /\ Len(Segment(1)) = 5
    /\ \A k \in 1..5 : Segment(1)[k].voice = Null

----------------------------------------------------------------------------
(* Closing the weather card during a lookup, checked under SpecPanel *)

\* C21: closing the weather card empties the panel and leaves every lookup
\* and every request as it is; a lookup that completes while the panel is
\* empty writes its result, or its error, into the panel, without a click.
C21_CloseDoesNotCancel ==
    [][ /\ (weatherBox # Null /\ weatherBox' = Null) =>
              (wx' = wx /\ requests' = requests /\ nClicks' = nClicks)
        /\ \A i \in Clicks :
              (weatherBox = Null /\ wx[i].pc = "await") =>
                  /\ wx'[i].pc = "done" =>
                        (weatherBox' = ResultBox(i) /\ nClicks' = nClicks)
                  /\ wx'[i].pc = "caught" =>
                        (weatherBox' = ErrorBox(i) /\ nClicks' = nClicks)
      ]_vars

\* the card is closed while the lookups of both clicks are pending, one
\* answer short of a result for click 1 and of an error for click 2
C21_Witness ==
    /\ nClicks = 2
    /\ weatherBox = Null
    /\ wx[1].pc = "await"
    /\ wx[1].place = "ok"
    /\ wx[1].weather = "pending"
    /\ wx[2].pc = "await"
    /\ wx[2].place = "pending"
    /\ [click |-> 1, kind |-> "weather"] \in requests
    /\ [click |-> 2, kind |-> "place"] \in requests

====
